---- MODULE Spec2Model ----
(***************************************************************************)
(* A model of the Subsonic client `Sunk` of src/src/sunk.rs: the           *)
(* authentication fragment (SunkAuth::as_uri), the URL builder             *)
(* (Sunk::build_url) and the request operations (get, try_binary, get_raw, *)
(* check_connection, scan_library, scan_status).                           *)
(*                                                                         *)
(* Strings that the code assembles or compares are sequences of            *)
(* one-character strings.  A JSON document is a tagged record.  A response *)
(* body is given by its bytes' name together with what the two decoders    *)
(* the code applies to it (json::from_slice, String::from_utf8) make of    *)
(* those bytes.                                                            *)
(***************************************************************************)
EXTENDS Integers, Sequences, FiniteSets, TLC

VARIABLES
    url,    \* Sunk.url: the parsed base URI (scheme and authority, each optional)
    auth,   \* Sunk.auth: SunkAuth {user, password}
    api,    \* Sunk.api: the target API version
    env,    \* the process environment's CARGO_PKG_NAME (read by as_uri)
    ret,    \* what the last call returned (or that it panicked)
    call    \* the last call: operation, arguments, built URL, response received

vars == <<url, auth, api, env, ret, call>>

----------------------------------------------------------------------------
(* Option and Result values, and panics.                                   *)

None == [some |-> FALSE]
Some(x) == [some |-> TRUE, v |-> x]

Ok(x) == [kind |-> "Ok", v |-> x]
Err(e) == [kind |-> "Err", e |-> e]
Panic == [kind |-> "panic"]
NoReturn == [kind |-> "none"]

(* The error values of module `error` that this file constructs.           *)
UriAddress == [err |-> "Uri", why |-> "Address"]
ConnectionError(status) == [err |-> "ConnectionError", status |-> status]
HyperError(cause) == [err |-> "HyperError", cause |-> cause]
ApiFailure(code, message) == [err |-> "Api", code |-> code, message |-> message]
Other(msg) == [err |-> "Other", msg |-> msg]
ApiParseError == [err |-> "Parse", what |-> "error object"]

----------------------------------------------------------------------------
(* Characters and strings.                                                 *)

Digit == <<"0", "1", "2", "3", "4", "5", "6", "7", "8", "9">>

(* The byte of a character of a version string ('.' is 46, '0' is 48).     *)
CharCode ==
    [c \in {"."} \cup {Digit[i] : i \in 1..10} |->
        IF c = "." THEN 46 ELSE 47 + (CHOOSE i \in 1..10 : Digit[i] = c)]

(* str's Ord: bytewise lexicographic, a proper prefix being smaller.  The  *)
(* value is negative, zero or positive as a is below, equal to or above b. *)
StrCmp(a, b) ==
    LET n == IF Len(a) < Len(b) THEN Len(a) ELSE Len(b)
        differ == {i \in 1..n : a[i] # b[i]}
    IN  IF differ = {} THEN Len(a) - Len(b)
        ELSE LET i == CHOOSE k \in differ : \A j \in differ : k <= j
             IN  CharCode[a[i]] - CharCode[b[i]]

(* The pieces of s between occurrences of the character sep.               *)
RECURSIVE SplitOn(_, _)
SplitOn(s, sep) ==
    IF \A i \in 1..Len(s) : s[i] # sep THEN <<s>>
    ELSE LET i == CHOOSE k \in 1..Len(s) :
                      s[k] = sep /\ \A j \in 1..(k - 1) : s[j] # sep
         IN  <<SubSeq(s, 1, i - 1)>> \o SplitOn(SubSeq(s, i + 1, Len(s)), sep)

StartsWith(s, p) == Len(p) <= Len(s) /\ SubSeq(s, 1, Len(p)) = p

RECURSIVE Join(_, _)
Join(parts, sep) ==
    IF parts = <<>> THEN <<>>
    ELSE IF Len(parts) = 1 THEN parts[1]
    ELSE parts[1] \o sep \o Join(Tail(parts), sep)

----------------------------------------------------------------------------
(* JSON values (json::Value) and the accessors the code uses.              *)

JNull == [t |-> "null"]
JBool(b) == [t |-> "bool", b |-> b]
JNum(n) == [t |-> "num", n |-> n]
JStr(s) == [t |-> "str", s |-> s]
JArr(a) == [t |-> "arr", a |-> a]
JObj(o) == [t |-> "obj", o |-> o]

(* Value::get(&str): Some(member) of an object that has the key.           *)
get_key(v, key) ==
    IF v.t = "obj" /\ key \in DOMAIN v.o THEN Some(v.o[key]) ELSE None

(* v[key]: the member, or Null when v is no object or lacks the key.       *)
index_str(v, key) ==
    IF v.t = "obj" /\ key \in DOMAIN v.o THEN v.o[key] ELSE JNull

(* v[i]: the element of an array (0-based), Null for anything else.        *)
index_usize(v, i) ==
    IF v.t = "arr" /\ i < Len(v.a) THEN v.a[i + 1] ELSE JNull

as_str(v) == IF v.t = "str" THEN Some(v.s) ELSE None
as_bool(v) == IF v.t = "bool" THEN Some(v.b) ELSE None
as_u64(v) == IF v.t = "num" /\ v.n >= 0 THEN Some(v.n) ELSE None

----------------------------------------------------------------------------
(* Api (module `api`): a version string; Display writes it as given.  The  *)
(* order is the one the specification attributes to the source: a          *)
(* comparison of the version strings themselves.                           *)

Api_from(s) == [version |-> s]
Api_display(a) == a.version
Api_ge(a, b) == StrCmp(a.version, b.version) >= 0

V1_13_0 == <<"1", ".", "1", "3", ".", "0">>
V1_14_0 == <<"1", ".", "1", "4", ".", "0">>

(* Query (module `query`): key/value pairs, written k=v and joined by '&'. *)
Query_with(k, v) == <<[key |-> k, value |-> v]>>
Query_to_string(args) ==
    Join([i \in 1..Len(args) |-> args[i].key \o <<"=">> \o args[i].value], <<"&">>)

----------------------------------------------------------------------------
(* SunkAuth::as_uri.                                                       *)

SALT_SIZE == 36

(* format!("{:x}", md5::compute(bytes)): the digest is kept symbolic, one  *)
(* digest per preimage, written with characters no other string uses.      *)
md5_hex(bytes) == <<"md5(">> \o bytes \o <<")">>

(* as_uri with the password and the salt hashed in the wrong order.        *)
as_uri_salt_first(self, a, salt, crate_name) ==
    LET auth_ ==
            IF Api_ge(a, Api_from(V1_13_0))
            THEN <<"u", "=">> \o self.user \o <<"&", "t", "=">>
                     \o md5_hex(salt \o self.password) \o <<"&", "s", "=">> \o salt
            ELSE <<"u", "=">> \o self.user \o <<"&", "p", "=">> \o self.password
        format == IF Api_ge(a, Api_from(V1_14_0))
                  THEN <<"j", "s", "o", "n">> ELSE <<"x", "m", "l">>
    IN  IF ~crate_name.some THEN Panic
        ELSE Ok(auth_ \o <<"&", "v", "=">> \o Api_display(a) \o <<"&", "c", "=">>
                    \o crate_name.v \o <<"&", "f", "=">> \o format)

(* as_uri with the test for token authentication inverted.                 *)
as_uri_plain_first(self, a, salt, crate_name) ==
    LET auth_ ==
            IF ~Api_ge(a, Api_from(V1_13_0))
            THEN <<"u", "=">> \o self.user \o <<"&", "t", "=">>
                     \o md5_hex(self.password \o salt) \o <<"&", "s", "=">> \o salt
            ELSE <<"u", "=">> \o self.user \o <<"&", "p", "=">> \o self.password
        format == IF Api_ge(a, Api_from(V1_14_0))
                  THEN <<"j", "s", "o", "n">> ELSE <<"x", "m", "l">>
    IN  IF ~crate_name.some THEN Panic
        ELSE Ok(auth_ \o <<"&", "v", "=">> \o Api_display(a) \o <<"&", "c", "=">>
                    \o crate_name.v \o <<"&", "f", "=">> \o format)

(* `salt` is what thread_rng() yields for this call (used by the token     *)
(* branch only); `crate_name` is env::var("CARGO_PKG_NAME"), whose unwrap  *)
(* panics when the variable is not set.                                    *)
as_uri(self, a, salt, crate_name) ==
    LET auth_ ==
            IF Api_ge(a, Api_from(V1_13_0))
            THEN LET pre_t == self.password \o salt
                     token == md5_hex(pre_t)
                 IN  <<"u", "=">> \o self.user \o <<"&", "t", "=">> \o token
                         \o <<"&", "s", "=">> \o salt
            ELSE <<"u", "=">> \o self.user \o <<"&", "p", "=">> \o self.password
        format == IF Api_ge(a, Api_from(V1_14_0))
                  THEN <<"j", "s", "o", "n">> ELSE <<"x", "m", "l">>
    IN  IF ~crate_name.some THEN Panic
        ELSE Ok(auth_ \o <<"&", "v", "=">> \o Api_display(a) \o <<"&", "c", "=">>
                    \o crate_name.v \o <<"&", "f", "=">> \o format)

----------------------------------------------------------------------------
(* Sunk::build_url.                                                        *)

build_url(self_url, self_auth, self_api, query, args, salt, crate_name) ==
    LET scheme == IF self_url.scheme.some THEN self_url.scheme.v
                  ELSE <<"h", "t", "t", "p">>
    IN  IF ~self_url.authority.some THEN Err(UriAddress)
        ELSE LET addr == self_url.authority.v
                 frag == as_uri(self_auth, self_api, salt, crate_name)
             IN  IF frag.kind = "panic" THEN Panic
                 ELSE Ok(scheme \o <<":", "/", "/">> \o addr
                             \o <<"/", "r", "e", "s", "t", "/">> \o query \o <<"?">>
                             \o frag.v \o <<"&">> \o Query_to_string(args))

----------------------------------------------------------------------------
(* Responses.  What the server sends is an input of each call.             *)

NotJson == [t |-> "invalid"]

(* json::from_slice(&body): Ok(value) exactly when the bytes are JSON.     *)
json_from_slice(body) == IF body.json.t = "invalid" THEN None ELSE Some(body.json)

(* String::from_utf8(bytes).                                               *)
from_utf8(body) == IF body.utf8 THEN Some(body.bytes) ELSE None

(* hyper::StatusCode::is_success: the 2xx codes.                           *)
is_success(status) == 200 <= status /\ status < 300

TransportError == [kind |-> "transport"]
Http(status, body) == [kind |-> "http", status |-> status, body |-> body]
NoResponse == [kind |-> "none"]

----------------------------------------------------------------------------
(* Sunk::get, after the URL is built: the request, the decoding of the     *)
(* body and the reading of the envelope.                                   *)

(* ApiError::try_from(out) (module `error`): the nested error object's     *)
(* code and message.                                                       *)
ApiError_try_from(out) ==
    LET e == index_str(out, "error")
        code == as_u64(index_str(e, "code"))
        message == as_str(index_str(e, "message"))
    IN  IF code.some /\ message.some
        THEN Ok(ApiFailure(code.v, message.v))
        ELSE Err(ApiParseError)

(* The envelope reading with a failed response taken for a success.        *)
read_envelope_failed_is_ok(status, res) ==
    IF is_success(status)
    THEN LET o == get_key(res, "subsonic-response")
         IN  IF o.some
             THEN LET st == as_str(index_str(o.v, "status"))
                  IN  IF st.some /\ st.v \in {"ok", "failed"}
                      THEN Ok(index_usize(o.v, 2))
                      ELSE Panic
             ELSE Panic
    ELSE Err(ConnectionError(status))

(* Lines 187-205: what get returns for a decoded response.                 *)
read_envelope(status, res) ==
    IF is_success(status)
    THEN LET o == get_key(res, "subsonic-response")
         IN  IF o.some
             THEN LET out == o.v
                      st == as_str(index_str(out, "status"))
                  IN  IF st.some /\ st.v = "ok"
                      THEN Ok(index_usize(out, 2))
                      ELSE IF st.some /\ st.v = "failed"
                      THEN LET e == ApiError_try_from(out)
                           IN  IF e.kind = "Ok" THEN Err(e.v) ELSE e
                      ELSE Panic
             ELSE Panic
    ELSE Err(ConnectionError(status))

(* Lines 172-186: the future `work` run by the reactor.  A body that is    *)
(* not JSON fails the future with an io::Error, whatever the status.       *)
get_response(resp) ==
    IF resp.kind = "transport" THEN Err(HyperError("transport"))
    ELSE LET v == json_from_slice(resp.body)
         IN  IF ~v.some THEN Err(HyperError("io: invalid JSON"))
             ELSE read_envelope(resp.status, v.v)

(* get: built is build_url's outcome; the request is sent only when a URL  *)
(* was built.                                                              *)
get(built, resp) ==
    IF built.kind # "Ok" THEN built ELSE get_response(resp)

----------------------------------------------------------------------------
(* Sunk::try_binary and Sunk::get_raw.                                     *)

(* try_binary with the test of the decoding inverted.                      *)
try_binary_inverted(built, resp) ==
    IF built.kind # "Ok" THEN built
    ELSE IF resp.kind = "transport" THEN Err(HyperError("transport"))
    ELSE LET valid_json == json_from_slice(resp.body).some
         IN  IF valid_json THEN Ok(built.v) ELSE Err(HyperError("Method"))

try_binary(built, resp) ==
    IF built.kind # "Ok" THEN built
    ELSE IF resp.kind = "transport" THEN Err(HyperError("transport"))
    ELSE LET raw_uri == built.v
             valid_json == json_from_slice(resp.body).some
         IN  IF ~valid_json THEN Ok(raw_uri) ELSE Err(HyperError("Method"))

get_raw(built, resp) ==
    IF built.kind # "Ok" THEN built
    ELSE IF resp.kind = "transport" THEN Err(HyperError("transport"))
    ELSE LET text == from_utf8(resp.body)
         IN  IF text.some THEN Ok(text.v)
             ELSE Err(Other("Unable to parse stream as UTF-8"))

----------------------------------------------------------------------------
(* The operations built on get.                                            *)

Unit == <<>>

(* check_connection and scan_library: get's value is dropped.              *)
check_connection(got) == IF got.kind = "Ok" THEN Ok(Unit) ELSE got
scan_library(got) == IF got.kind = "Ok" THEN Ok(Unit) ELSE got

(* scan_status: both absent-field arms are unreachable!(), which panics.   *)
scan_status(got) ==
    IF got.kind # "Ok" THEN got
    ELSE LET res == got.v
             status == as_bool(index_str(res, "scanning"))
             count == as_u64(index_str(res, "count"))
         IN  IF status.some
             THEN IF count.some THEN Ok(<<status.v, count.v>>) ELSE Panic
             ELSE Panic

----------------------------------------------------------------------------
(* The inputs.                                                             *)

(* How many of the outcomes of the random generator are drawn: salt k is   *)
(* the SALT_SIZE-character string whose i-th character is the (i*k)-th of  *)
(* SaltAlphabet, cyclically.                                               *)
NumSalts == 2
SaltAlphabet == <<"a", "B", "7", "z", "Q", "0", "k">>
Salts ==
    { [i \in 1..SALT_SIZE |-> SaltAlphabet[((i * k) % Len(SaltAlphabet)) + 1]] :
          k \in 1..NumSalts }

Credentials ==
    { [user |-> <<"u", "s", "e", "r">>, password |-> <<"p", "a", "s", "s">>],
      [user |-> <<"b", "o", "b">>, password |-> <<"x", "1">>] }

(* What Uri::from_str yields for "/music", "host", "http://host" and       *)
(* "https://host": a URI has a scheme only if it has an authority.         *)
Host == <<"h", "o", "s", "t">>
BaseUris ==
    { [scheme |-> None, authority |-> None],
      [scheme |-> None, authority |-> Some(Host)],
      [scheme |-> Some(<<"h", "t", "t", "p">>), authority |-> Some(Host)],
      [scheme |-> Some(<<"h", "t", "t", "p", "s">>), authority |-> Some(Host)] }

CrateNames == {None, Some(<<"s", "u", "n", "k">>)}

Ping == <<"p", "i", "n", "g">>
Stream == <<"s", "t", "r", "e", "a", "m">>
StartScan == <<"s", "t", "a", "r", "t", "S", "c", "a", "n">>
GetScanStatus == <<"g", "e", "t", "S", "c", "a", "n", "S", "t", "a", "t", "u", "s">>
NoArgs == Query_with(<<>>, <<>>)

(* The (query, args) pairs the public request operations are called with.  *)
Requests ==
    { [query |-> Ping, args |-> NoArgs],
      [query |-> Stream, args |-> Query_with(<<"i", "d">>, <<"1">>)] }

WrongAuth == JObj([code |-> JNum(40), message |-> JStr("Wrong username or password.")])
NotFound == JObj([code |-> JNum(70), message |-> JStr("The requested data was not found.")])

JsonDocs ==
    { \* status ok, with and without a payload
      JObj([status |-> JStr("ok"), version |-> JStr("1.14.0")]),
      JObj([status |-> JStr("ok"), version |-> JStr("1.14.0"),
            scanning |-> JBool(FALSE), count |-> JNum(5661)]),
      JObj([status |-> JStr("ok"), version |-> JStr("1.14.0"),
            scanning |-> JStr("no"), count |-> JNum(-1)]),
      JObj([status |-> JStr("ok"), version |-> JStr("1.14.0"),
            scanStatus |-> JObj([scanning |-> JBool(TRUE), count |-> JNum(12)])]),
      \* status failed, with and without a usable error object
      JObj([status |-> JStr("failed"), version |-> JStr("1.14.0"), error |-> WrongAuth]),
      JObj([status |-> JStr("failed"), version |-> JStr("1.14.0"), error |-> NotFound]),
      JObj([status |-> JStr("failed"), version |-> JStr("1.14.0")]),
      \* a status that is neither, is no string, or is missing
      JObj([status |-> JStr("busy"), version |-> JStr("1.14.0")]),
      JObj([status |-> JNum(1)]),
      JObj([version |-> JStr("1.14.0")]),
      \* the envelope is no object
      JNull,
      JArr(<<JStr("ok"), JStr("1.14.0"), JObj([scanning |-> JBool(FALSE), count |-> JNum(3)])>>) }

(* The key "subsonic-response" is written as a function, since it is no    *)
(* record label.                                                           *)
Wrapped(inner) == JObj([k \in {"subsonic-response"} |-> inner])

Bodies ==
    { [bytes |-> [form |-> "raw", of |-> "binary stream"], utf8 |-> FALSE, json |-> NotJson],
      [bytes |-> [form |-> "raw", of |-> "<html>Not Found</html>"], utf8 |-> TRUE,
        json |-> NotJson] }
    \cup { [bytes |-> [form |-> "json", of |-> Wrapped(d)], utf8 |-> TRUE, json |-> Wrapped(d)] : d \in JsonDocs }
    \cup { [bytes |-> [form |-> "json", of |-> d], utf8 |-> TRUE, json |-> d] :
               d \in { JObj([status |-> JStr("ok")]), JArr(<<>>), JNum(7) } }

Statuses == {200, 404}

Responses ==
    {TransportError} \cup { Http(st, b) : st \in Statuses, b \in Bodies }

----------------------------------------------------------------------------
(* The client.  Init is the state Sunk::new leaves: the URI as parsed, the *)
(* credentials as given, the API version 1.14.0.                           *)

NoCall == [op |-> "none"]

Init ==
    /\ url \in BaseUris
    /\ auth \in Credentials
    /\ api = Api_from(V1_14_0)
    /\ env \in CrateNames
    /\ ret = NoReturn
    /\ call = NoCall

(* A panic ends the thread that owns the client.                           *)
Running == ret.kind # "panic"

Called(op, rq, built, resp, got) ==
    [op |-> op, query |-> rq.query, args |-> rq.args, built |-> built,
     resp |-> IF built.kind = "Ok" THEN resp ELSE NoResponse, got |-> got]

Get(rq, salt, resp) ==
    /\ Running
    /\ \E built \in {build_url(url, auth, api, rq.query, rq.args, salt, env)} :
           /\ ret' = get(built, resp)
           /\ call' = Called("get", rq, built, resp, NoReturn)
    /\ UNCHANGED <<url, auth, api, env>>

TryBinary(rq, salt, resp) ==
    /\ Running
    /\ \E built \in {build_url(url, auth, api, rq.query, rq.args, salt, env)} :
           /\ ret' = try_binary(built, resp)
           /\ call' = Called("try_binary", rq, built, resp, NoReturn)
    /\ UNCHANGED <<url, auth, api, env>>

GetRaw(rq, salt, resp) ==
    /\ Running
    /\ \E built \in {build_url(url, auth, api, rq.query, rq.args, salt, env)} :
           /\ ret' = get_raw(built, resp)
           /\ call' = Called("get_raw", rq, built, resp, NoReturn)
    /\ UNCHANGED <<url, auth, api, env>>

CheckConnection(salt, resp) ==
    /\ Running
    /\ \E built \in {build_url(url, auth, api, Ping, NoArgs, salt, env)} :
         \E got \in {get(built, resp)} :
           /\ ret' = check_connection(got)
           /\ call' = Called("check_connection", [query |-> Ping, args |-> NoArgs], built, resp, got)
    /\ UNCHANGED <<url, auth, api, env>>

ScanLibrary(salt, resp) ==
    /\ Running
    /\ \E built \in {build_url(url, auth, api, StartScan, NoArgs, salt, env)} :
         \E got \in {get(built, resp)} :
           /\ ret' = scan_library(got)
           /\ call' = Called("scan_library", [query |-> StartScan, args |-> NoArgs], built, resp, got)
    /\ UNCHANGED <<url, auth, api, env>>

ScanStatus(salt, resp) ==
    /\ Running
    /\ \E built \in {build_url(url, auth, api, GetScanStatus, NoArgs, salt, env)} :
         \E got \in {get(built, resp)} :
           /\ ret' = scan_status(got)
           /\ call' = Called("scan_status", [query |-> GetScanStatus, args |-> NoArgs], built, resp, got)
    /\ UNCHANGED <<url, auth, api, env>>

Next ==
    \E salt \in Salts, resp \in Responses :
        \/ \E rq \in Requests : Get(rq, salt, resp)
        \/ \E rq \in Requests : TryBinary(rq, salt, resp)
        \/ \E rq \in Requests : GetRaw(rq, salt, resp)
        \/ CheckConnection(salt, resp)
        \/ ScanLibrary(salt, resp)
        \/ ScanStatus(salt, resp)

Spec == Init /\ [][Next]_vars

----------------------------------------------------------------------------
(* as_uri as a function of any credentials and any API version: the        *)
(* versions are published versions of the Subsonic REST API.               *)

ApiVersions ==
    { <<"1", ".", "2", ".", "0">>, <<"1", ".", "8", ".", "0">>,
      <<"1", ".", "9", ".", "0">>, <<"1", ".", "1", "0", ".", "2">>,
      <<"1", ".", "1", "1", ".", "0">>, <<"1", ".", "1", "2", ".", "0">>,
      V1_13_0, V1_14_0, <<"1", ".", "1", "5", ".", "0">>,
      <<"1", ".", "1", "6", ".", "1">> }

AnyCredentials ==
    { [user |-> c.user, password |-> d.password] : c \in Credentials, d \in Credentials }

InitAuth ==
    /\ url = [scheme |-> None, authority |-> Some(Host)]
    /\ auth \in AnyCredentials
    /\ api \in { Api_from(v) : v \in ApiVersions }
    /\ env \in CrateNames
    /\ ret = NoReturn
    /\ call = NoCall

AsUri(salt) ==
    /\ Running
    /\ ret' = as_uri(auth, api, salt, env)
    /\ call' = [op |-> "as_uri"]
    /\ UNCHANGED <<url, auth, api, env>>

NextAuth == \E salt \in Salts : AsUri(salt)

SpecAuth == InitAuth /\ [][NextAuth]_vars

----------------------------------------------------------------------------
(* Reading a fragment or a URL back: its parameters, and versions as       *)
(* numbers.                                                                *)

ParamKey(p) == SplitOn(p, "=")[1]
ParamValue(p) == SubSeq(p, Len(ParamKey(p)) + 2, Len(p))
Params(q) == SplitOn(q, "&")
HasParam(q, k) == \E i \in 1..Len(Params(q)) : ParamKey(Params(q)[i]) = k
ParamOf(q, k) ==
    ParamValue(Params(q)[CHOOSE i \in 1..Len(Params(q)) : ParamKey(Params(q)[i]) = k])

(* The query string of a URL: what follows its first '?'.                  *)
QueryOf(u) == SubSeq(u, Len(SplitOn(u, "?")[1]) + 2, Len(u))

RECURSIVE ParseNat(_)
ParseNat(ds) ==
    IF ds = <<>> THEN 0
    ELSE 10 * ParseNat(SubSeq(ds, 1, Len(ds) - 1)) + (CharCode[ds[Len(ds)]] - 48)

Segments(v) == [i \in 1..3 |-> ParseNat(SplitOn(v, ".")[i])]

(* v >= w, each dot-separated segment read as a number.                    *)
NumericGe(v, w) ==
    LET a == Segments(v)
        b == Segments(w)
    IN  \/ a[1] > b[1]
        \/ a[1] = b[1] /\ a[2] > b[2]
        \/ a[1] = b[1] /\ a[2] = b[2] /\ a[3] >= b[3]

(* The scheme build_url is to use for the client's base URI.               *)
SchemeOrHttp == IF url.scheme.some THEN url.scheme.v ELSE <<"h", "t", "t", "p">>

(* The response of the last call was received and is the JSON document v.  *)
Received == call.op # "none" /\ call.op # "as_uri" /\ call.resp.kind = "http"
ReceivedJson == Received /\ call.resp.body.json.t # "invalid"

(* The top-level `subsonic-response` member of the received document.      *)
HasEnvelope ==
    /\ ReceivedJson
    /\ call.resp.body.json.t = "obj"
    /\ "subsonic-response" \in DOMAIN call.resp.body.json.o
TheEnvelope == call.resp.body.json.o["subsonic-response"]
EnvelopeStatus(st) ==
    /\ HasEnvelope
    /\ TheEnvelope.t = "obj"
    /\ "status" \in DOMAIN TheEnvelope.o
    /\ TheEnvelope.o["status"] = JStr(st)

----------------------------------------------------------------------------
(* C1: a get whose response has a non-success HTTP status returns          *)
(* ConnectionError(status), whatever the body, a body that is not JSON     *)
(* included.                                                               *)
C1_NonSuccessIsConnectionError ==
    (call.op = "get" /\ Received /\ ~is_success(call.resp.status))
        => ret = Err(ConnectionError(call.resp.status))

(* C2: a get whose response has a success status and a JSON body without a *)
(* `subsonic-response` member, or whose `status` is missing or neither     *)
(* "ok" nor "failed", returns a protocol-violation error and never panics. *)
C2_ProtocolViolationIsAnError ==
    (/\ call.op = "get"
     /\ ReceivedJson
     /\ is_success(call.resp.status)
     /\ ~EnvelopeStatus("ok")
     /\ ~EnvelopeStatus("failed"))
        => (ret.kind = "Err" /\ ret.e.err = "ProtocolViolation")

(* C3: a get whose response is HTTP 200 with envelope status "ok" returns  *)
(* Ok with the payload of the envelope: not null, and holding every        *)
(* payload member of the envelope under its name.                          *)
C3_OkReturnsPayload ==
    (call.op = "get" /\ call.resp.kind = "http" /\ call.resp.status = 200
         /\ EnvelopeStatus("ok"))
        => /\ ret.kind = "Ok"
           /\ ret.v # JNull
           /\ \A k \in DOMAIN TheEnvelope.o \ {"status", "version"} :
                  index_str(ret.v, k) = TheEnvelope.o[k]

(* C4: a get whose response is HTTP 200 with envelope status "failed" and  *)
(* a nested error object with code c and message m returns the API failure *)
(* carrying exactly (c, m), and never Ok.                                  *)
C4_FailedIsApiFailure ==
    (/\ call.op = "get" /\ call.resp.kind = "http" /\ call.resp.status = 200
     /\ EnvelopeStatus("failed")
     /\ "error" \in DOMAIN TheEnvelope.o
     /\ TheEnvelope.o["error"].t = "obj"
     /\ {"code", "message"} \subseteq DOMAIN TheEnvelope.o["error"].o
     /\ TheEnvelope.o["error"].o["code"].t = "num"
     /\ TheEnvelope.o["error"].o["code"].n >= 0
     /\ TheEnvelope.o["error"].o["message"].t = "str")
        => ret = Err(ApiFailure(TheEnvelope.o["error"].o["code"].n,
                                TheEnvelope.o["error"].o["message"].s))

C4_Witness ==
    /\ call.op = "get"
    /\ call.resp.kind = "http" /\ call.resp.status = 200
    /\ EnvelopeStatus("failed")
    /\ ret = Err(ApiFailure(40, "Wrong username or password."))

(* C5: a try_binary whose response body is not JSON returns Ok with the    *)
(* URL build_url constructed for the call (scheme://authority/rest/<query> *)
(* and the call's parameters); one whose body is JSON returns an error.    *)
C5_ProbeReturnsUrl ==
    (call.op = "try_binary" /\ Received)
        => IF call.resp.body.json.t = "invalid"
           THEN /\ ret = Ok(call.built.v)
                /\ StartsWith(ret.v, SchemeOrHttp \o <<":", "/", "/">> \o url.authority.v
                                         \o <<"/", "r", "e", "s", "t", "/">>
                                         \o call.query \o <<"?">>)
                /\ Params(QueryOf(ret.v))[Len(Params(QueryOf(ret.v)))]
                       = Query_to_string(call.args)
           ELSE ret.kind = "Err"

C5_Witness ==
    /\ call.op = "try_binary"
    /\ Received
    /\ ~call.resp.body.utf8
    /\ ret.kind = "Ok"
    /\ ret.v = call.built.v

C7_PlainFragmentBelow_1_13 ==
    (call.op = "as_uri" /\ ret.kind = "Ok" /\ ~NumericGe(api.version, V1_13_0))
        => /\ StartsWith(ret.v, <<"u", "=">> \o auth.user \o <<"&", "p", "=">>
                                    \o auth.password \o <<"&", "v", "=">>)
           /\ ~HasParam(ret.v, <<"t">>)
           /\ ~HasParam(ret.v, <<"s">>)

(* C8: build_url fails with a UriError when the base URI has no authority; *)
(* with an authority it succeeds, with the scheme "http" when the base URI *)
(* has none, and the URL is                                                *)
(* scheme://authority/rest/<endpoint>?<authFragment>&<extraParams>.        *)
C8_BuildUrl ==
    (call.op # "none" /\ call.op # "as_uri")
        => IF ~url.authority.some
           THEN call.built.kind = "Err" /\ call.built.e.err = "Uri"
           ELSE /\ call.built.kind = "Ok"
                /\ StartsWith(call.built.v,
                              SchemeOrHttp \o <<":", "/", "/">> \o url.authority.v
                                  \o <<"/", "r", "e", "s", "t", "/">> \o call.query
                                  \o <<"?", "u", "=">> \o auth.user \o <<"&">>)
                /\ Params(QueryOf(call.built.v))[Len(Params(QueryOf(call.built.v)))]
                       = Query_to_string(call.args)

(* C9: a scan_status whose request succeeds returns a typed error when the *)
(* payload lacks `scanning` or `count` or either has the wrong kind, and   *)
(* (scanning, count) when both are there with the right kinds; it does not *)
(* panic.                                                                  *)
C9_ScanStatusTyped ==
    (call.op = "scan_status" /\ call.got.kind = "Ok")
        => LET scanning == index_str(call.got.v, "scanning")
               count == index_str(call.got.v, "count")
           IN  IF scanning.t = "bool" /\ count.t = "num" /\ count.n >= 0
               THEN ret = Ok(<<scanning.b, count.n>>)
               ELSE ret.kind = "Err"

====
